---- MODULE Spec2Model ----
(***************************************************************************)
(* Model of src/libsyntax/ext/asm.rs: expand_asm, the parser of the asm!   *)
(* macro arguments.                                                        *)
(*                                                                         *)
(* The token stream is the input.  It is revealed one token at a time:     *)
(* every bump of the parser chooses the token that follows, so the         *)
(* behaviours of the model are the runs of expand_asm over the token       *)
(* streams of at most MaxTokens tokens, with at most MaxItems items in a   *)
(* list section, whose string literals are those of Pool for the section   *)
(* that reads them.  String literals are sequences of characters.  An      *)
(* expression is one atom token (a string literal or an identifier); the   *)
(* expression grammar belongs to the parser.  A failure of the parser      *)
(* (parse_str, parse_expr, expect) ends the run without a result.          *)
(***************************************************************************)
EXTENDS Integers, Sequences, FiniteSets, TLC

VARIABLES p, state, pc, asm, asm_str_style, outputs, inputs, clobs,
          volatile, alignstack, dialect, constraint, out, input,
          diags, expn, result, asm_sets

vars == <<p, state, pc, asm, asm_str_style, outputs, inputs, clobs,
          volatile, alignstack, dialect, constraint, out, input,
          diags, expn, result, asm_sets>>

\* ---------------------------------------------------------------- bounds
MaxTokens == 10

\* At most MaxItems items in a list section of the token stream.
MaxItems == 2

\* ------------------------------------------------------- string literals
Str0 == << >>
StrPlus == <<"+">>
StrEqR == <<"=", "r">>
StrPlusR == <<"+", "r">>
StrR == <<"r">>
StrVolatile == <<"v", "o", "l", "a", "t", "i", "l", "e">>
StrAlignstack == <<"a", "l", "i", "g", "n", "s", "t", "a", "c", "k">>
StrIntel == <<"i", "n", "t", "e", "l">>

StartsWith(s, ch) == Len(s) > 0 /\ s[1] = ch

None == [some |-> FALSE]

\* str::slice_shift_char: the first character and the rest, or None.
SliceShiftChar(s) ==
    IF Len(s) = 0 THEN None
    ELSE [some |-> TRUE, ch |-> Head(s), rest |-> Tail(s)]

\* format!("={}", operand)
FormatEq(operand) == <<"=">> \o operand

\* ---------------------------------------------------------------- tokens
Tok(k) == [k |-> k, s |-> << >>, style |-> "NoStyle"]
StrTok(s) == [k |-> "Str", s |-> s, style |-> "CookedStr"]

Colon == Tok("Colon")
ModSep == Tok("ModSep")
Comma == Tok("Comma")
OpenParen == Tok("OpenParen")
CloseParen == Tok("CloseParen")
Ident == Tok("Ident")
Eof == Tok("Eof")

Punct == {Colon, ModSep, Comma, OpenParen, CloseParen}

\* The string literals of the token stream, by the section that reads them.
Pool(st) ==
    CASE st = "Asm" -> {StrR, StrVolatile}
      [] st \in {"Outputs", "Inputs"} -> {Str0, StrPlus, StrEqR, StrPlusR, StrR}
      [] st = "Clobbers" -> {StrR, StrVolatile, StrIntel}
      [] OTHER -> {StrR, StrVolatile, StrAlignstack, StrIntel}

Tokens(st) == Punct \cup {Ident} \cup {StrTok(s) : s \in Pool(st)}

\* The tokens that may follow the current one while the section is st.
Following(st) == Tokens(st) \cup {Eof}

\* The tokens that may follow the open parenthesis of an operand: the
\* operand expressions of the token stream are an identifier or "r".
AfterOpen == Punct \cup {Ident, StrTok(StrR), Eof}

\* The tokens that may follow the last token of an item of a list section
\* which now holds n items.
AfterItem(n, st) == IF n < MaxItems THEN Following(st) ELSE {Colon, ModSep, Eof}

\* ---------------------------------------------------------------- cursor
\* Parser::bump: the token after the current one becomes current; the
\* stream holds at most MaxTokens tokens and ends in Eof for ever.
Bump(cur, nxt) ==
    IF cur.token = Eof THEN cur
    ELSE IF nxt # Eof /\ cur.ntok < MaxTokens
         THEN [token |-> nxt, ntok |-> cur.ntok + 1]
         ELSE [token |-> Eof, ntok |-> cur.ntok]

\* Parser::eat: consume the token if it is t.
Eat(cur, t, nxt) == IF cur.token = t THEN Bump(cur, nxt) ELSE cur

\* Parser::expect: consume t or fail.
Expect(cur, t, nxt) ==
    IF cur.token = t THEN [ok |-> TRUE, cur |-> Bump(cur, nxt)]
    ELSE [ok |-> FALSE, cur |-> cur]

\* Parser::parse_str: a string literal and its style, or fail.
ParseStr(cur, nxt) ==
    IF cur.token.k = "Str"
    THEN [ok |-> TRUE, s |-> cur.token.s, style |-> cur.token.style,
          cur |-> Bump(cur, nxt)]
    ELSE [ok |-> FALSE, s |-> Str0, style |-> "NoStyle", cur |-> cur]

\* Parser::parse_expr: an expression atom, or fail.
ParseExpr(cur, nxt) ==
    IF cur.token.k \in {"Str", "Ident"}
    THEN [ok |-> TRUE, e |-> cur.token, cur |-> Bump(cur, nxt)]
    ELSE [ok |-> FALSE, e |-> Eof, cur |-> cur]

\* ext::base::expr_to_string: the text and style of a string literal
\* expression, None (after one error) for any other expression.
ExprToString(e) ==
    IF e.k = "Str" THEN [some |-> TRUE, s |-> e.s, style |-> e.style]
    ELSE [some |-> FALSE, s |-> Str0, style |-> "NoStyle"]

\* ----------------------------------------------------------- diagnostics
Err(msg) == [level |-> "error", msg |-> msg]
Warn(msg) == [level |-> "warning", msg |-> msg]

ErrTemplate == Err("inline assembly must be a string literal")
ErrOutput == Err("output operand constraint lacks '=' or '+'")
ErrInputEq == Err("input operand constraint contains '='")
ErrInputPlus == Err("input operand constraint contains '+'")
WarnClobber == Warn("expected a clobber, found an option")
WarnOption == Warn("unrecognized option")

\* ----------------------------------------------------------------- State
States == {"Asm", "Outputs", "Inputs", "Clobbers", "Options", "StateNone"}

\* State::next
nextWraps(st) ==
    CASE st = "Asm" -> "Outputs"
      [] st = "Outputs" -> "Inputs"
      [] st = "Inputs" -> "Clobbers"
      [] st = "Clobbers" -> "Options"
      [] st = "Options" -> "Asm"
      [] st = "StateNone" -> "StateNone"

next(st) ==
    CASE st = "Asm" -> "Outputs"
      [] st = "Outputs" -> "Inputs"
      [] st = "Inputs" -> "Clobbers"
      [] st = "Clobbers" -> "Options"
      [] st = "Options" -> "StateNone"
      [] st = "StateNone" -> "StateNone"

OPTIONSNoIntel == {StrVolatile, StrAlignstack}

OPTIONS == {StrVolatile, StrAlignstack, StrIntel}

NoStr == <<"<none>">>
NoExpr == Tok("NoExpr")
NoResult == [kind |-> "none"]
DummyResult == [kind |-> "DummyResult"]

\* Vec::push as used for outputs, inputs and clobs.
PushFront(list, x) == <<x>> \o list

Push(list, x) == Append(list, x)

Terminator(t) == t = Eof \/ t = Colon \/ t = ModSep

\* ------------------------------------------------------------------ Init
Init ==
    /\ \E t \in Following("Asm") :
         p = [token |-> t, ntok |-> IF t = Eof THEN 0 ELSE 1]
    /\ state = "Asm"
    /\ pc = "statement"
    /\ asm = Str0
    /\ asm_str_style = None
    /\ outputs = << >>
    /\ inputs = << >>
    /\ clobs = << >>
    /\ volatile = FALSE
    /\ alignstack = FALSE
    /\ dialect = "AsmAtt"
    /\ constraint = NoStr
    /\ out = NoExpr
    /\ input = NoExpr
    /\ diags = << >>
    /\ expn = 0
    /\ result = NoResult
    /\ asm_sets = 0

\* A failure of the cursor (parse_str, parse_expr, expect) ends the run.
Abort(cur) ==
    /\ pc' = "abort"
    /\ p' = cur
    /\ UNCHANGED <<state, asm, asm_str_style, outputs, inputs, clobs,
                   volatile, alignstack, dialect, diags, expn, result,
                   asm_sets>>
    /\ constraint' = NoStr
    /\ out' = NoExpr
    /\ input' = NoExpr

\* ------------------------------------------------------------- Asm arm
\* The None arm of the match on expr_to_string: the error has been emitted
\* and expand_asm returns DummyResult::expr(sp).
AsmNoneContinues(cur) ==
    /\ diags' = Append(diags, ErrTemplate)
    /\ pc' = "sep"
    /\ p' = cur
    /\ UNCHANGED <<state, asm, asm_str_style, outputs, inputs, clobs,
                   volatile, alignstack, dialect, constraint, out, input,
                   expn, result, asm_sets>>

AsmNone(cur) ==
    /\ diags' = Append(diags, ErrTemplate)
    /\ result' = DummyResult
    /\ pc' = "dummy"
    /\ p' = cur
    /\ UNCHANGED <<state, asm, asm_str_style, outputs, inputs, clobs,
                   volatile, alignstack, dialect, constraint, out, input,
                   expn, asm_sets>>

ParseAsm ==
    /\ pc = "statement"
    /\ state = "Asm"
    /\ \E nxt \in Following(state) :
         LET r == ParseExpr(p, nxt)
             t == ExprToString(r.e)
         IN  IF ~r.ok THEN Abort(r.cur)
             ELSE IF ~t.some THEN AsmNone(r.cur)
             ELSE /\ asm' = t.s
                  /\ asm_str_style' = [some |-> TRUE, style |-> t.style]
                  /\ asm_sets' = asm_sets + 1
                  /\ pc' = "sep"
                  /\ p' = r.cur
                  /\ UNCHANGED <<state, outputs, inputs, clobs, volatile,
                                 alignstack, dialect, constraint, out, input,
                                 diags, expn, result>>

\* The match on state enters the arm of a list section, whose while loop
\* is then run item by item; the StateNone arm does nothing.
Dispatch ==
    /\ pc = "statement"
    /\ state \in {"Outputs", "Inputs", "Clobbers", "StateNone"}
    /\ pc' = CASE state = "Outputs" -> "outputs"
               [] state = "Inputs" -> "inputs"
               [] state = "Clobbers" -> "clobbers"
               [] state = "StateNone" -> "sep"
    /\ UNCHANGED <<p, state, asm, asm_str_style, outputs, inputs, clobs,
                   volatile, alignstack, dialect, constraint, out, input,
                   diags, expn, result, asm_sets>>

\* The while condition of a list section is false: the arm is left.
LoopEnd(at) ==
    /\ pc = at
    /\ Terminator(p.token)
    /\ pc' = "sep"
    /\ UNCHANGED <<p, state, asm, asm_str_style, outputs, inputs, clobs,
                   volatile, alignstack, dialect, constraint, out, input,
                   diags, expn, result, asm_sets>>

\* --------------------------------------------------------- Outputs arm
\* The match on constraint.slice_shift_char(): the replacement constraint
\* (Some only for the '+' form) and whether the error is emitted.
OutputMatchKeepsPlus(c) ==
    LET sh == SliceShiftChar(c)
    IN  IF sh.some /\ sh.ch = "="
        THEN [some |-> FALSE, s |-> Str0, err |-> FALSE]
        ELSE IF sh.some /\ sh.ch = "+"
        THEN [some |-> TRUE, s |-> c, err |-> FALSE]
        ELSE [some |-> FALSE, s |-> Str0, err |-> TRUE]

OutputMatchRwOnEq(c) ==
    LET sh == SliceShiftChar(c)
    IN  IF sh.some /\ sh.ch = "="
        THEN [some |-> TRUE, s |-> c, err |-> FALSE]
        ELSE IF sh.some /\ sh.ch = "+"
        THEN [some |-> TRUE, s |-> FormatEq(sh.rest), err |-> FALSE]
        ELSE [some |-> FALSE, s |-> Str0, err |-> TRUE]

OutputMatchSilent(c) ==
    LET sh == SliceShiftChar(c)
    IN  IF sh.some /\ sh.ch = "="
        THEN [some |-> FALSE, s |-> Str0, err |-> FALSE]
        ELSE IF sh.some /\ sh.ch = "+"
        THEN [some |-> TRUE, s |-> FormatEq(sh.rest), err |-> FALSE]
        ELSE [some |-> FALSE, s |-> Str0, err |-> FALSE]

OutputMatch(c) ==
    LET sh == SliceShiftChar(c)
    IN  IF sh.some /\ sh.ch = "="
        THEN [some |-> FALSE, s |-> Str0, err |-> FALSE]
        ELSE IF sh.some /\ sh.ch = "+"
        THEN [some |-> TRUE, s |-> FormatEq(sh.rest), err |-> FALSE]
        ELSE [some |-> FALSE, s |-> Str0, err |-> TRUE]

\* while the token is no terminator: the optional comma.
OutputsBegin ==
    /\ pc = "outputs"
    /\ ~Terminator(p.token)
    /\ \E n1 \in Following(state) :
         p' = IF Len(outputs) # 0 THEN Eat(p, Comma, n1) ELSE p
    /\ pc' = "out_str"
    /\ UNCHANGED <<state, asm, asm_str_style, outputs,
                   inputs, clobs, volatile, alignstack,
                   dialect, constraint, out, input,
                   diags, expn, result, asm_sets>>

\* let (constraint, _str_style) = p.parse_str()
OutputsStr ==
    /\ pc = "out_str"
    /\ \E n1 \in Following(state) :
         LET r == ParseStr(p, n1)
         IN  IF ~r.ok THEN Abort(r.cur)
             ELSE /\ constraint' = r.s
                  /\ p' = r.cur
                  /\ pc' = "out_open"
                  /\ UNCHANGED <<state, asm, asm_str_style, outputs, inputs,
                                 clobs, volatile, alignstack, dialect, out,
                                 input, diags, expn, result, asm_sets>>

\* p.expect(&token::OpenDelim(token::Paren))
OutputsOpen ==
    /\ pc = "out_open"
    /\ \E n1 \in AfterOpen :
         LET e1 == Expect(p, OpenParen, n1)
         IN  IF ~e1.ok THEN Abort(e1.cur)
             ELSE /\ p' = e1.cur
                  /\ pc' = "out_expr"
                  /\ UNCHANGED <<state, asm, asm_str_style, outputs, inputs,
                                 clobs, volatile, alignstack, dialect,
                                 constraint, out, input, diags, expn, result,
                                 asm_sets>>

\* let out = p.parse_expr()
OutputsExpr ==
    /\ pc = "out_expr"
    /\ \E n1 \in Following(state) :
         LET r == ParseExpr(p, n1)
         IN  IF ~r.ok THEN Abort(r.cur)
             ELSE /\ out' = r.e
                  /\ p' = r.cur
                  /\ pc' = "out_close"
                  /\ UNCHANGED <<state, asm, asm_str_style, outputs, inputs,
                                 clobs, volatile, alignstack, dialect,
                                 constraint, input, diags, expn, result,
                                 asm_sets>>

\* The close parenthesis, the constraint match and the push.
OutputsPush ==
    /\ pc = "out_close"
    /\ \E n1 \in AfterItem(Len(outputs) + 1, state) :
         LET e1 == Expect(p, CloseParen, n1)
             output == OutputMatch(constraint)
             is_rw == output.some
         IN  IF ~e1.ok THEN Abort(e1.cur)
             ELSE /\ diags' = IF output.err THEN Append(diags, ErrOutput)
                              ELSE diags
                  /\ outputs' = Push(outputs,
                        [constraint |-> IF output.some THEN output.s
                                        ELSE constraint,
                         expr |-> out, is_rw |-> is_rw])
                  /\ p' = e1.cur
                  /\ pc' = "outputs"
                  /\ constraint' = NoStr
                  /\ out' = NoExpr
                  /\ UNCHANGED <<state, asm, asm_str_style, inputs, clobs,
                                 volatile, alignstack, dialect, input, expn,
                                 result, asm_sets>>

OutputsEnd == LoopEnd("outputs")

\* ---------------------------------------------------------- Inputs arm
\* The starts_with checks on an input constraint: the errors emitted.
InputCheckEqOnly(c) ==
    IF StartsWith(c, "=") THEN <<ErrInputEq>> ELSE << >>

InputCheck(c) ==
    IF StartsWith(c, "=") THEN <<ErrInputEq>>
    ELSE IF StartsWith(c, "+") THEN <<ErrInputPlus>>
    ELSE << >>

\* while the token is no terminator: the optional comma.
InputsBegin ==
    /\ pc = "inputs"
    /\ ~Terminator(p.token)
    /\ \E n1 \in Following(state) :
         p' = IF Len(inputs) # 0 THEN Eat(p, Comma, n1) ELSE p
    /\ pc' = "in_str"
    /\ UNCHANGED <<state, asm, asm_str_style, outputs,
                   inputs, clobs, volatile, alignstack,
                   dialect, constraint, out, input,
                   diags, expn, result, asm_sets>>

\* The constraint string and its starts_with checks.
InputsStr ==
    /\ pc = "in_str"
    /\ \E n1 \in Following(state) :
         LET r == ParseStr(p, n1)
         IN  IF ~r.ok THEN Abort(r.cur)
             ELSE /\ constraint' = r.s
                  /\ diags' = diags \o InputCheck(r.s)
                  /\ p' = r.cur
                  /\ pc' = "in_open"
                  /\ UNCHANGED <<state, asm, asm_str_style, outputs, inputs,
                                 clobs, volatile, alignstack, dialect, out,
                                 input, expn, result, asm_sets>>

InputsOpen ==
    /\ pc = "in_open"
    /\ \E n1 \in AfterOpen :
         LET e1 == Expect(p, OpenParen, n1)
         IN  IF ~e1.ok THEN Abort(e1.cur)
             ELSE /\ p' = e1.cur
                  /\ pc' = "in_expr"
                  /\ UNCHANGED <<state, asm, asm_str_style, outputs, inputs,
                                 clobs, volatile, alignstack, dialect,
                                 constraint, out, input, diags, expn, result,
                                 asm_sets>>

InputsExpr ==
    /\ pc = "in_expr"
    /\ \E n1 \in Following(state) :
         LET r == ParseExpr(p, n1)
         IN  IF ~r.ok THEN Abort(r.cur)
             ELSE /\ input' = r.e
                  /\ p' = r.cur
                  /\ pc' = "in_close"
                  /\ UNCHANGED <<state, asm, asm_str_style, outputs, inputs,
                                 clobs, volatile, alignstack, dialect,
                                 constraint, out, diags, expn, result,
                                 asm_sets>>

InputsPush ==
    /\ pc = "in_close"
    /\ \E n1 \in AfterItem(Len(inputs) + 1, state) :
         LET e1 == Expect(p, CloseParen, n1)
         IN  IF ~e1.ok THEN Abort(e1.cur)
             ELSE /\ inputs' = Push(inputs,
                        [constraint |-> constraint, expr |-> input])
                  /\ p' = e1.cur
                  /\ pc' = "inputs"
                  /\ constraint' = NoStr
                  /\ input' = NoExpr
                  /\ UNCHANGED <<state, asm, asm_str_style, outputs, clobs,
                                 volatile, alignstack, dialect, out, diags,
                                 expn, result, asm_sets>>

InputsEnd == LoopEnd("inputs")

\* -------------------------------------------------------- Clobbers arm
\* while the token is no terminator: the optional comma.
ClobbersBegin ==
    /\ pc = "clobbers"
    /\ ~Terminator(p.token)
    /\ \E n1 \in Following(state) :
         p' = IF Len(clobs) # 0 THEN Eat(p, Comma, n1) ELSE p
    /\ pc' = "clob_str"
    /\ UNCHANGED <<state, asm, asm_str_style, outputs,
                   inputs, clobs, volatile, alignstack,
                   dialect, constraint, out, input,
                   diags, expn, result, asm_sets>>

\* The string, the warning for an option keyword and the push.
ClobbersItem ==
    /\ pc = "clob_str"
    /\ \E n1 \in AfterItem(Len(clobs) + 1, state) :
         LET r == ParseStr(p, n1)
         IN  IF ~r.ok THEN Abort(r.cur)
             ELSE /\ diags' = IF r.s \in OPTIONS
                              THEN Append(diags, WarnClobber) ELSE diags
                  /\ clobs' = Push(clobs, r.s)
                  /\ p' = r.cur
                  /\ pc' = "clobbers"
                  /\ UNCHANGED <<state, asm, asm_str_style, outputs, inputs,
                                 volatile, alignstack, dialect, constraint,
                                 out, input, expn, result, asm_sets>>

ClobbersEnd == LoopEnd("clobbers")

\* --------------------------------------------------------- Options arm
\* The if / else if chain on the option string: the flags after it and
\* whether the warning is emitted.
OptionMatchResets(option) ==
    [volatile |-> option = StrVolatile,
     alignstack |-> option = StrAlignstack,
     dialect |-> IF option = StrIntel THEN "AsmIntel" ELSE "AsmAtt",
     warn |-> option \notin {StrVolatile, StrAlignstack, StrIntel}]

OptionMatchSilent(option) ==
    IF option = StrVolatile
    THEN [volatile |-> TRUE, alignstack |-> alignstack,
          dialect |-> dialect, warn |-> FALSE]
    ELSE IF option = StrAlignstack
    THEN [volatile |-> volatile, alignstack |-> TRUE,
          dialect |-> dialect, warn |-> FALSE]
    ELSE IF option = StrIntel
    THEN [volatile |-> volatile, alignstack |-> alignstack,
          dialect |-> "AsmIntel", warn |-> FALSE]
    ELSE [volatile |-> volatile, alignstack |-> alignstack,
          dialect |-> dialect, warn |-> FALSE]

OptionMatch(option) ==
    IF option = StrVolatile
    THEN [volatile |-> TRUE, alignstack |-> alignstack,
          dialect |-> dialect, warn |-> FALSE]
    ELSE IF option = StrAlignstack
    THEN [volatile |-> volatile, alignstack |-> TRUE,
          dialect |-> dialect, warn |-> FALSE]
    ELSE IF option = StrIntel
    THEN [volatile |-> volatile, alignstack |-> alignstack,
          dialect |-> "AsmIntel", warn |-> FALSE]
    ELSE [volatile |-> volatile, alignstack |-> alignstack,
          dialect |-> dialect, warn |-> TRUE]

\* One option string, its flag or warning, and the comma after it.
ParseOptions ==
    /\ pc = "statement"
    /\ state = "Options"
    /\ \E n1 \in Following(state) :
         LET r == ParseStr(p, n1)
             option == r.s
             m == OptionMatch(option)
         IN  IF ~r.ok THEN Abort(r.cur)
             ELSE /\ volatile' = m.volatile
                  /\ alignstack' = m.alignstack
                  /\ dialect' = m.dialect
                  /\ diags' = IF m.warn THEN Append(diags, WarnOption)
                              ELSE diags
                  /\ IF r.cur.token = Comma
                     THEN \E n2 \in Following(state) : p' = Eat(r.cur, Comma, n2)
                     ELSE p' = r.cur
                  /\ pc' = "sep"
                  /\ UNCHANGED <<state, asm, asm_str_style, outputs, inputs,
                                 clobs, constraint, out, input, expn, result,
                                 asm_sets>>

\* ------------------------------------------------------ separator loop
\* match (&p.token, state.next(), state.next().next()): the arm taken and
\* the state it assigns.
SepMatchEofBreaks(tok, st) ==
    IF (tok = Colon /\ next(st) = "StateNone")
       \/ (tok = ModSep /\ next(next(st)) = "StateNone")
    THEN [arm |-> "terminate", st |-> st]
    ELSE IF tok = Colon THEN [arm |-> "advance", st |-> next(st)]
    ELSE IF tok = ModSep THEN [arm |-> "advance", st |-> next(next(st))]
    ELSE [arm |-> "other", st |-> st]

SepMatchModSepOnce(tok, st) ==
    IF (tok = Colon /\ next(st) = "StateNone")
       \/ (tok = ModSep /\ next(st) = "StateNone")
    THEN [arm |-> "terminate", st |-> st]
    ELSE IF tok = Colon THEN [arm |-> "advance", st |-> next(st)]
    ELSE IF tok = ModSep THEN [arm |-> "advance", st |-> next(st)]
    ELSE IF tok = Eof THEN [arm |-> "eof", st |-> st]
    ELSE [arm |-> "other", st |-> st]

SepMatchNeverEnds(tok, st) ==
    IF tok = Colon THEN [arm |-> "advance", st |-> next(st)]
    ELSE IF tok = ModSep THEN [arm |-> "advance", st |-> next(next(st))]
    ELSE IF tok = Eof THEN [arm |-> "eof", st |-> st]
    ELSE [arm |-> "other", st |-> st]

SepMatch(tok, st) ==
    IF (tok = Colon /\ next(st) = "StateNone")
       \/ (tok = ModSep /\ next(next(st)) = "StateNone")
    THEN [arm |-> "terminate", st |-> st]
    ELSE IF tok = Colon THEN [arm |-> "advance", st |-> next(st)]
    ELSE IF tok = ModSep THEN [arm |-> "advance", st |-> next(next(st))]
    ELSE IF tok = Eof THEN [arm |-> "eof", st |-> st]
    ELSE [arm |-> "other", st |-> st]

\* p.bump(); break 'statement
SepTerminate ==
    /\ pc = "sep"
    /\ SepMatch(p.token, state).arm = "terminate"
    /\ \E nxt \in Following(state) : p' = Bump(p, nxt)
    /\ pc' = "build"
    /\ UNCHANGED <<state, asm, asm_str_style, outputs, inputs, clobs,
                   volatile, alignstack, dialect, constraint, out, input,
                   diags, expn, result, asm_sets>>

\* p.bump(); state = st
SepAdvance ==
    /\ pc = "sep"
    /\ SepMatch(p.token, state).arm = "advance"
    /\ \E nxt \in Following(SepMatch(p.token, state).st) : p' = Bump(p, nxt)
    /\ state' = SepMatch(p.token, state).st
    /\ UNCHANGED <<pc, asm, asm_str_style, outputs, inputs, clobs,
                   volatile, alignstack, dialect, constraint, out, input,
                   diags, expn, result, asm_sets>>

\* break 'statement
SepEof ==
    /\ pc = "sep"
    /\ SepMatch(p.token, state).arm = "eof"
    /\ pc' = "build"
    /\ UNCHANGED <<p, state, asm, asm_str_style, outputs, inputs, clobs,
                   volatile, alignstack, dialect, constraint, out, input,
                   diags, expn, result, asm_sets>>

\* break: back to the match on state
SepOther ==
    /\ pc = "sep"
    /\ SepMatch(p.token, state).arm = "other"
    /\ pc' = "statement"
    /\ UNCHANGED <<p, state, asm, asm_str_style, outputs, inputs, clobs,
                   volatile, alignstack, dialect, constraint, out, input,
                   diags, expn, result, asm_sets>>

\* ---------------------------------------------------- building the result
\* ast::InlineAsm as built at the end of expand_asm.
InlineAsm(id) ==
    [kind |-> "InlineAsm",
     asm |-> asm,
     asm_str_style |-> asm_str_style.style,
     outputs |-> outputs,
     inputs |-> inputs,
     clobbers |-> clobs,
     volatile |-> volatile,
     alignstack |-> alignstack,
     dialect |-> dialect,
     expn_id |-> id]

\* record_expansion, asm_str_style.unwrap() and MacExpr::new.
BuildChecksTrailing ==
    /\ pc = "build"
    /\ expn' = expn + 1
    /\ diags' = IF p.token = Eof THEN diags
                ELSE Append(diags, Err("unexpected token"))
    /\ IF asm_str_style.some
       THEN /\ result' = InlineAsm(expn')
            /\ pc' = "done"
       ELSE /\ result' = result
            /\ pc' = "abort"
    /\ UNCHANGED <<p, state, asm, asm_str_style, outputs, inputs, clobs,
                   volatile, alignstack, dialect, constraint, out, input,
                   asm_sets>>

Build ==
    /\ pc = "build"
    /\ expn' = expn + 1
    /\ IF asm_str_style.some
       THEN /\ result' = InlineAsm(expn')
            /\ pc' = "done"
       ELSE /\ result' = result
            /\ pc' = "abort"
    /\ UNCHANGED <<p, state, asm, asm_str_style, outputs, inputs, clobs,
                   volatile, alignstack, dialect, constraint, out, input,
                   diags, asm_sets>>

Next ==
    \/ ParseAsm
    \/ Dispatch
    \/ OutputsBegin
    \/ OutputsStr
    \/ OutputsOpen
    \/ OutputsExpr
    \/ OutputsPush
    \/ OutputsEnd
    \/ InputsBegin
    \/ InputsStr
    \/ InputsOpen
    \/ InputsExpr
    \/ InputsPush
    \/ InputsEnd
    \/ ClobbersBegin
    \/ ClobbersItem
    \/ ClobbersEnd
    \/ ParseOptions
    \/ SepTerminate
    \/ SepAdvance
    \/ SepEof
    \/ SepOther
    \/ Build

Spec == Init /\ [][Next]_vars

\* The parser is the only process and runs to completion.
FairSpec == Init /\ [][Next]_vars /\ WF_vars(Next)

\* ================================================================ claims
Rank(st) ==
    CASE st = "Asm" -> 0
      [] st = "Outputs" -> 1
      [] st = "Inputs" -> 2
      [] st = "Clobbers" -> 3
      [] st = "Options" -> 4
      [] st = "StateNone" -> 5

Returned == pc \in {"done", "dummy", "abort"}
Terminated == pc \in {"build", "done"}

\* C1: every run of expand_asm over a finite token stream ends: it returns
\* the InlineAsm expression or the DummyResult, or the cursor fails.
Termination == <>Returned

\* C1 witness: a run that went through the list loops and the separator
\* loop several times and returned.
TerminationWitness ==
    pc = "done" /\ state = "Options" /\ Len(clobs) = 2 /\ volatile

\* C2: the section never moves backward, and once the separator loop has
\* left the statement loop the section changes no more and stays left.
SectionsForward ==
    [][/\ Rank(state') >= Rank(state)
       /\ Terminated => (state' = state /\ Terminated')]_vars

\* C2 witness: a run that advanced to the last section and terminated.
SectionsForwardWitness ==
    pc = "build" /\ state = "Options" /\ Len(outputs) = 1

\* The separator loop over a sequence of boundary tokens from section st:
\* the last arm taken and the section reached.
RECURSIVE SepRun(_, _)
SepRun(toks, st) ==
    LET m == SepMatch(Head(toks), st)
    IN  IF Len(toks) = 1 \/ m.arm # "advance" THEN m
        ELSE SepRun(Tail(toks), m.st)

AccumulatorsUnchanged ==
    UNCHANGED <<asm, asm_str_style, outputs, inputs, clobs, volatile,
                alignstack, dialect, diags, expn, result>>

\* C3: at every boundary the separator loop decides the same for '::' as
\* for ':' ':' (terminate, or go on in the same section), and its
\* iterations change nothing of the result or the diagnostics.
DoubleBoundaryEquiv ==
    /\ [](pc = "sep" /\ p.token \in {Colon, ModSep} =>
            LET one == SepRun(<<ModSep>>, state)
                two == SepRun(<<Colon, Colon>>, state)
            IN  /\ one.arm = two.arm
                /\ one.arm \in {"terminate", "advance"}
                /\ one.arm = "advance" => one.st = two.st)
    /\ [][pc = "sep" => AccumulatorsUnchanged]_vars

\* C3 witness: '::' right after the template has been consumed and the
\* loop goes on in Inputs.
DoubleBoundaryWitness ==
    /\ pc = "sep" /\ state = "Inputs" /\ asm_sets = 1
    /\ p.ntok = 3 /\ p.token # Eof

\* C4: the template is assigned exactly once in a run that builds the
\* InlineAsm expression.
TemplateSetOnce == result.kind = "InlineAsm" => asm_sets = 1

\* C5: a template expression that is no string literal emits the one
\* error and returns DummyResult: nothing is built, no expansion is
\* recorded, no section after the template is parsed, and the run is over.
BadTemplateFatal ==
    /\ [][/\ pc # "dummy"
          /\ (pc = "statement" /\ state = "Asm" /\ p.token.k = "Ident") =>
                /\ pc' = "dummy"
                /\ result' = DummyResult
                /\ diags' = Append(diags, ErrTemplate)]_vars
    /\ [](pc = "dummy" =>
            /\ diags = <<ErrTemplate>>
            /\ result = DummyResult
            /\ expn = 0
            /\ state = "Asm"
            /\ outputs = << >> /\ inputs = << >> /\ clobs = << >>
            /\ ~volatile /\ ~alignstack /\ dialect = "AsmAtt")

\* C5 witness: the first template expression was an identifier.
BadTemplateWitness == pc = "dummy" /\ asm_sets = 0 /\ p.ntok = 2

Count(seq, P(_)) == Cardinality({i \in 1..Len(seq) : P(seq[i])})

IsErrOutput(d) == d = ErrOutput
LacksEq(o) == ~StartsWith(o.constraint, "=")

\* C6 as stated: every stored output constraint begins with '='.
OutputsWriteForm == \A i \in 1..Len(outputs) : ~LacksEq(outputs[i])

\* C6 amended: a stored output constraint begins with '=' unless the
\* constraint error was emitted for it: the stored outputs that lack the
\* '=' are as many as the output constraint errors.
OutputsWriteFormOrError ==
    Count(outputs, LacksEq) = Count(diags, IsErrOutput)

\* C6 witness: one output stored after the error, one stored from '+'.
OutputsWriteFormWitness ==
    /\ Len(outputs) = 2
    /\ outputs[1].constraint = StrR
    /\ outputs[2].constraint = StrEqR /\ outputs[2].is_rw
    /\ diags = <<ErrOutput>>

\* An output operand is complete: its close parenthesis is the token.
OutputPushes == pc = "out_close" /\ p.token = CloseParen

\* C7: '=' ++ r is stored unchanged with read_write false, '+' ++ r is
\* stored as '=' ++ r with read_write true, read_write is true exactly for
\* the '+' form, and neither form emits a diagnostic.
OutputNormalization ==
    [][OutputPushes =>
        LET o == outputs'[Len(outputs')]
        IN  /\ Len(outputs') = Len(outputs) + 1
            /\ StartsWith(constraint, "=") =>
                 o.constraint = constraint /\ ~o.is_rw /\ diags' = diags
            /\ StartsWith(constraint, "+") =>
                 /\ o.constraint = <<"=">> \o Tail(constraint)
                 /\ o.is_rw
                 /\ diags' = diags
            /\ o.is_rw <=> StartsWith(constraint, "+")]_vars

\* C7 witness: "=r" and "+" stored, the second as "=" and read-write.
OutputNormalizationWitness ==
    /\ Len(outputs) = 2
    /\ outputs[1].constraint = StrEqR /\ ~outputs[1].is_rw
    /\ outputs[2].constraint = <<"=">> /\ outputs[2].is_rw
    /\ diags = << >>

\* C8: an output constraint that begins with neither '=' nor '+' emits the
\* one error, the operand is pushed as written with read_write false, and
\* the loop goes on.
OutputLacksEqError ==
    [][(OutputPushes /\ ~StartsWith(constraint, "=")
                     /\ ~StartsWith(constraint, "+")) =>
        /\ diags' = Append(diags, ErrOutput)
        /\ outputs' = Append(outputs, [constraint |-> constraint,
                                       expr |-> out, is_rw |-> FALSE])
        /\ pc' = "outputs"]_vars

\* C8 witness: the empty constraint was stored after the error and the
\* run went on to return.
OutputLacksEqWitness ==
    /\ pc = "done"
    /\ Len(outputs) = 1 /\ outputs[1].constraint = Str0
    /\ ~outputs[1].is_rw
    /\ diags = <<ErrOutput>>

IsErrInput(d) == d \in {ErrInputEq, ErrInputPlus}
BadInput(c) == StartsWith(c, "=") \/ StartsWith(c, "+")
BadInputOperand(o) == BadInput(o.constraint)
InputPcs == {"inputs", "in_open", "in_expr", "in_close"}

\* C9: an input constraint that begins with '=' or '+' emits the one error
\* when it is read, any other emits none; the rest of the operand emits
\* nothing and the operand is pushed as written while the loop goes on.
InputConstraintError ==
    /\ [][(pc = "in_str" /\ p.token.k = "Str") =>
            /\ pc' = "in_open"
            /\ diags' = IF StartsWith(p.token.s, "=")
                          THEN Append(diags, ErrInputEq)
                        ELSE IF StartsWith(p.token.s, "+")
                          THEN Append(diags, ErrInputPlus)
                        ELSE diags]_vars
    /\ [][(pc \in InputPcs) => diags' = diags]_vars
    /\ [][(pc = "in_close" /\ p.token = CloseParen) =>
            /\ inputs' = Append(inputs, [constraint |-> constraint,
                                         expr |-> input])
            /\ pc' = "inputs"]_vars
    /\ [](pc # "abort" =>
            Count(diags, IsErrInput) =
              Count(inputs, BadInputOperand)
              + (IF pc \in {"in_open", "in_expr", "in_close"}
                    /\ BadInput(constraint) THEN 1 ELSE 0))

\* C9 witness: "+r" and "r" are stored as inputs after one error.
InputConstraintWitness ==
    /\ pc = "done"
    /\ Len(inputs) = 2
    /\ inputs[1].constraint = StrPlusR /\ inputs[2].constraint = StrR
    /\ diags = <<ErrInputPlus>>

\* C10: end of input in the separator loop ends the parse and the
\* InlineAsm expression is built from the lists and flags as they are; the
\* sections after the current one have an empty list and default flags.
EofTerminates ==
    /\ [][(pc = "sep" /\ p.token = Eof) =>
            (pc' = "build" /\ AccumulatorsUnchanged)]_vars
    /\ [][pc = "build" =>
            /\ pc' = "done"
            /\ result'.kind = "InlineAsm"
            /\ result'.outputs = outputs /\ result'.inputs = inputs
            /\ result'.clobbers = clobs /\ result'.volatile = volatile
            /\ result'.alignstack = alignstack
            /\ result'.dialect = dialect]_vars
    /\ [](/\ Rank(state) < 1 => outputs = << >>
          /\ Rank(state) < 2 => inputs = << >>
          /\ Rank(state) < 3 => clobs = << >>
          /\ Rank(state) < 4 =>
               ~volatile /\ ~alignstack /\ dialect = "AsmAtt")

\* C10 witness: the stream ended after the outputs and the result is built.
EofTerminatesWitness ==
    /\ pc = "done" /\ p.token = Eof /\ state = "Outputs"
    /\ Len(outputs) = 1 /\ result.inputs = << >> /\ result.clobbers = << >>
    /\ ~result.volatile /\ result.dialect = "AsmAtt"

Keywords == {StrVolatile, StrAlignstack, StrIntel}

\* list' is list with one element x added at its end.
Appended(list, newlist, x) ==
    /\ Len(newlist) = Len(list) + 1
    /\ SubSeq(newlist, 1, Len(list)) = list
    /\ newlist[Len(newlist)] = x

\* C11: outputs, inputs and clobs change only by one element added at the
\* end, which is the operand or string just read, and the result holds the
\* lists as they are: no element is removed or moved.
ListsAppendOnly ==
    /\ [][/\ \/ outputs' = outputs
             \/ /\ pc = "out_close"
                /\ Len(outputs') = Len(outputs) + 1
                /\ SubSeq(outputs', 1, Len(outputs)) = outputs
                /\ outputs'[Len(outputs')].expr = out
          /\ \/ inputs' = inputs
             \/ /\ pc = "in_close"
                /\ Appended(inputs, inputs',
                            [constraint |-> constraint, expr |-> input])
          /\ \/ clobs' = clobs
             \/ /\ pc = "clob_str"
                /\ Appended(clobs, clobs', p.token.s)]_vars
    /\ [](result.kind = "InlineAsm" =>
            /\ result.outputs = outputs
            /\ result.inputs = inputs
            /\ result.clobbers = clobs)

\* C11 witness: two different outputs are in the result in source order.
ListsAppendOnlyWitness ==
    /\ result.kind = "InlineAsm"
    /\ Len(result.outputs) = 2
    /\ result.outputs[1].expr = Ident
    /\ result.outputs[2].expr = StrTok(StrR)
    /\ result.outputs[1].constraint = StrEqR
    /\ result.outputs[2].constraint = Str0

OptionRead == pc = "statement" /\ state = "Options" /\ p.token.k = "Str"

\* C12: the flags change only when an option string is read in the Options
\* section: "volatile", "alignstack" and "intel" set their flag, a flag
\* that is set stays set, outside Options the flags have their defaults,
\* and the result holds the flags as they are.
OptionFlags ==
    /\ [][IF OptionRead
          THEN /\ volatile' = (volatile \/ p.token.s = StrVolatile)
               /\ alignstack' = (alignstack \/ p.token.s = StrAlignstack)
               /\ dialect' = IF p.token.s = StrIntel THEN "AsmIntel"
                             ELSE dialect
          ELSE UNCHANGED <<volatile, alignstack, dialect>>]_vars
    /\ [](state # "Options" =>
            ~volatile /\ ~alignstack /\ dialect = "AsmAtt")
    /\ [](result.kind = "InlineAsm" =>
            /\ result.volatile = volatile
            /\ result.alignstack = alignstack
            /\ result.dialect = dialect)

\* C12 witness: "intel" as a clobber set no flag, and the two options read
\* one per pass set theirs.
OptionFlagsWitness ==
    /\ result.kind = "InlineAsm"
    /\ result.clobbers = <<StrIntel>>
    /\ result.volatile /\ result.alignstack /\ result.dialect = "AsmAtt"

\* C13: an option string that is none of the three keywords emits the one
\* warning and changes no flag and no list; the section stays Options.
UnrecognizedOption ==
    [][(OptionRead /\ p.token.s \notin Keywords) =>
        /\ diags' = Append(diags, WarnOption)
        /\ UNCHANGED <<volatile, alignstack, dialect, outputs, inputs,
                       clobs, state>>
        /\ pc' = "sep"]_vars

\* C13 witness: "r" was read as an option after "volatile".
UnrecognizedOptionWitness ==
    /\ pc = "done" /\ state = "Options"
    /\ diags = <<WarnOption>>
    /\ volatile /\ ~alignstack /\ dialect = "AsmAtt"

\* C14: a clobber string that is one of the option keywords emits the one
\* warning, any other emits nothing, and either is pushed onto clobs.
ClobberOptionWarning ==
    [][(pc = "clob_str" /\ p.token.k = "Str") =>
        /\ Appended(clobs, clobs', p.token.s)
        /\ diags' = IF p.token.s \in Keywords
                    THEN Append(diags, WarnClobber) ELSE diags]_vars

\* C14 witness: "intel" and "r" are clobbers, after one warning.
ClobberOptionWitness ==
    /\ pc = "done"
    /\ clobs = <<StrIntel, StrR>>
    /\ diags = <<WarnClobber>>

\* C15: no run of expand_asm is aborted: every run returns the InlineAsm
\* expression or the DummyResult.
NeverAborts == pc # "abort"

\* C16: when the content parser of a section other than Options hands over
\* to the separator loop, the token is ':', '::' or end of input, so the
\* loop never sends such a section back to its content parser.
ContentEndsAtBoundary ==
    [][(pc # "sep" /\ pc' = "sep" /\ state # "Options") =>
        Terminator(p'.token)]_vars

TerminatingBoundary ==
    /\ pc = "sep"
    /\ \/ p.token = Colon /\ state = "Options"
       \/ p.token = ModSep /\ state = "Clobbers"

\* The cursor moved on by exactly one token.
OneTokenConsumed ==
    \/ p'.ntok = p.ntok + 1 /\ p'.token # Eof
    \/ p'.ntok = p.ntok /\ p'.token = Eof

\* C17: ':' in Options and '::' in Clobbers consume that one token and
\* leave the statement loop; from there the result is built, the cursor
\* does not move and no arm of the match on state runs again.
BoundaryTerminates ==
    /\ [][TerminatingBoundary =>
            /\ pc' = "build"
            /\ OneTokenConsumed
            /\ state' = state
            /\ AccumulatorsUnchanged]_vars
    /\ [][pc = "build" =>
            /\ pc' = "done"
            /\ result'.kind = "InlineAsm"
            /\ p' = p]_vars
    /\ [][pc # "done"]_vars

\* C17 witness: '::' after a clobber ended the parse before a further token.
BoundaryTerminatesWitness ==
    /\ pc = "done" /\ state = "Clobbers" /\ p.token # Eof
    /\ Len(clobs) = 1

\* C18: when the statement loop has been left the template style is set,
\* so the unwrap cannot fail, and one expansion is recorded for the result
\* and none otherwise.
BuilderHasTemplate ==
    /\ Terminated => asm_str_style.some
    /\ pc = "done" =>
         /\ expn = 1
         /\ result.kind = "InlineAsm"
         /\ result.expn_id = 1
         /\ result.asm_str_style = asm_str_style.style
    /\ pc # "done" => expn = 0 /\ result.kind # "InlineAsm"

\* C18 witness: a result with template "volatile" and its expansion.
BuilderHasTemplateWitness ==
    /\ pc = "done" /\ result.asm = StrVolatile /\ result.expn_id = 1
    /\ state = "Asm"

EndingBoundary ==
    /\ pc = "sep"
    /\ \/ p.token = Colon /\ state = "Options"
       \/ p.token = ModSep /\ state \in {"Clobbers", "Options"}

\* C19: after the boundary that ends the parse the cursor does not move
\* and nothing is emitted, and the result is made of the template, the
\* lists and the flags only: the tokens after that boundary have no effect
\* on the result or the diagnostics.
TrailingIgnored ==
    /\ [][EndingBoundary =>
            Terminated' /\ diags' = diags]_vars
    /\ [][Terminated =>
            /\ Terminated'
            /\ p' = p
            /\ diags' = diags]_vars
    /\ [][pc = "build" =>
            result' = [kind |-> "InlineAsm",
                       asm |-> asm,
                       asm_str_style |-> asm_str_style.style,
                       outputs |-> outputs,
                       inputs |-> inputs,
                       clobbers |-> clobs,
                       volatile |-> volatile,
                       alignstack |-> alignstack,
                       dialect |-> dialect,
                       expn_id |-> 1]]_vars

\* C19 witness: a string follows the ':' that ended the options and the
\* result is built without a diagnostic.
TrailingIgnoredWitness ==
    /\ pc = "done" /\ state = "Options" /\ p.token.k = "Str"
    /\ diags = << >> /\ dialect = "AsmIntel"

\* C20: the section is never StateNone; when the match on state enters
\* the arm of a list section the token is no terminator and the list is
\* empty, so the arm was not entered before and inside its loop the list
\* is non-empty exactly when an item of this section was read.
ListArmsEnteredOnce ==
    /\ state # "StateNone"
    /\ (pc = "statement" /\ state \in {"Outputs", "Inputs", "Clobbers"}) =>
         /\ ~Terminator(p.token)
         /\ state = "Outputs" => outputs = << >>
         /\ state = "Inputs" => inputs = << >>
         /\ state = "Clobbers" => clobs = << >>
    /\ (pc = "sep" /\ ~Terminator(p.token)) =>
         /\ state = "Outputs" => outputs = << >>
         /\ state = "Inputs" => inputs = << >>
         /\ state = "Clobbers" => clobs = << >>

\* C20 witness: the Clobbers arm is entered after the Outputs arm has
\* stored an operand.
ListArmsEnteredOnceWitness ==
    /\ pc = "statement" /\ state = "Clobbers" /\ Len(outputs) = 1

====
